---- MODULE Spec2Model ----
(***************************************************************************)
(* Model of wfdb/plot/plot.py: plotrec, check_plot_items, calc_ecg_grids.  *)
(*                                                                         *)
(* Values.  Python's None inside a list of strings is the string NoneS.    *)
(* A polymorphic argument is a tagged record, so that values of different  *)
(* Python types stay comparable.  A time value x/fs/60 is kept as the      *)
(* fraction [n |-> x, d |-> fs*60]; d = 0 is numpy's inf/nan.               *)
(***************************************************************************)
EXTENDS Integers, Sequences, FiniteSets, TLC

VARIABLES record, title, annotation, time_units, sig_style, ann_style,
          plot_ann_sym, ecg_grids, pc, err, out, loc, rendered, calls, hist

vars == <<record, title, annotation, time_units, sig_style, ann_style,
          plot_ann_sym, ecg_grids, pc, err, out, loc, rendered, calls, hist>>

args == <<title, annotation, time_units, sig_style, ann_style,
          plot_ann_sym, ecg_grids>>

-----------------------------------------------------------------------------
(* Bounds of the model *)
MaxChan   == 2
MaxSigLen == 2
MaxCalls  == 2

-----------------------------------------------------------------------------
(* Python values *)
NoneS == "<None>"

NoneV == [tag |-> "None", items |-> <<>>]
ListV(s) == [tag |-> "list", items |-> s]
OtherV == [tag |-> "other", items |-> <<>>]

StrStyle(s) == [tag |-> "str", s |-> s, items |-> <<>>]
ListStyle(l) == [tag |-> "list", s |-> "", items |-> l]
OtherStyle == [tag |-> "other", s |-> "", items |-> <<>>]

FsNone == [num |-> FALSE, v |-> 0]
FsNum(x) == [num |-> TRUE, v |-> x]

AnnNone == [tag |-> "None", sample |-> <<>>, symbol |-> <<>>]
AnnObj(sample, symbol) == [tag |-> "Annotation", sample |-> sample, symbol |-> symbol]
AnnArr(sample) == [tag |-> "ndarray", sample |-> sample, symbol |-> <<>>]
AnnOther == [tag |-> "other", sample |-> <<>>, symbol |-> <<>>]

ArgNone == [tag |-> "None", sample |-> <<>>, symbol |-> <<>>, items |-> <<>>]
ArgOne(a) == [tag |-> a.tag, sample |-> a.sample, symbol |-> a.symbol, items |-> <<>>]
ArgList(l) == [tag |-> "list", sample |-> <<>>, symbol |-> <<>>, items |-> l]

NoArr == [tag |-> "None", v |-> <<>>]
Arr(s) == [tag |-> "ndarray", v |-> s]

Digit == <<"1", "2", "3", "4", "5">>

SeqsUpTo(S, n) == UNION {[1..k -> S] : k \in 0..n}

Repeat(x, n) == [i \in 1..n |-> x]

-----------------------------------------------------------------------------
(* The names bound in the module namespace of plot.py: the imports of      *)
(* lines 1-7 and the functions the file defines.  A reference to any other *)
(* global name raises NameError when it is evaluated.                      *)
ModuleGlobals == {"plt", "np", "os", "Record", "rdrecord", "float_types",
                  "downround", "upround", "plotrec", "calc_ecg_grids",
                  "check_plot_items", "plotann", "checkannplotitems",
                  "plot_records"}

NameBound(name) == name \in ModuleGlobals

-----------------------------------------------------------------------------
(* Time axis *)
allowedtimes == {"samples", "seconds", "minutes", "hours"}

TimeDiv(unit) == CASE unit = "seconds" -> 1
                   [] unit = "minutes" -> 60
                   [] unit = "hours"   -> 3600
                   [] OTHER            -> 1

\* one sample index in the time base: x, x/fs, x/fs/60, x/fs/3600
TimeVal(x, fsv, unit) ==
    IF unit = "samples" THEN [n |-> x, d |-> 1]
    ELSE [n |-> x, d |-> fsv * TimeDiv(unit)]

\* np.linspace(0, siglen-1, siglen), scaled
TimeAxis(siglen, fsv, unit) == [i \in 1..siglen |-> TimeVal(i - 1, fsv, unit)]

\* annplot[ch] scaled by the time base
ScaleAnn(sample, fsv, unit) == [j \in 1..Len(sample) |-> TimeVal(sample[j], fsv, unit)]

-----------------------------------------------------------------------------
(* check_plot_items, lines 214-229: default filling of record.units and    *)
(* record.signame *)

\* a fill that resets every entry of the list, the given ones too
FillUnitsAll(items) == [i \in 1..Len(items) |-> "NU"]

\* lines 220-222: every None entry of the list becomes 'NU'
FillUnits(items) == [i \in 1..Len(items) |-> IF items[i] = NoneS THEN "NU" ELSE items[i]]

\* line 216
DefaultUnits(nsig) == Repeat("NU", nsig)

\* line 226: ['ch'+str(ch) for ch in range(1, nsig+1)]
DefaultNames(nsig) == [i \in 1..nsig |-> "ch" \o Digit[i]]

\* lines 214-222: [err, units]
CheckUnits(units, nsig) ==
    IF units.tag = "None" THEN [err |-> "none", units |-> ListV(DefaultUnits(nsig))]
    ELSE IF units.tag # "list" \/ Len(units.items) # nsig
         THEN [err |-> "ValueError:units", units |-> units]
         ELSE [err |-> "none", units |-> ListV(FillUnits(units.items))]

\* lines 224-229: [err, signame]; the entries of a given list are not touched
CheckSigname(signame, nsig) ==
    IF signame.tag = "None" THEN [err |-> "none", signame |-> ListV(DefaultNames(nsig))]
    ELSE IF signame.tag # "list" \/ Len(signame.items) # nsig
         THEN [err |-> "ValueError:signame", signame |-> signame]
         ELSE [err |-> "none", signame |-> signame]

\* lines 235-242 and 244-251: a str, or a list no longer than record.nsig
CheckStyle(style, nsig, which) ==
    IF style.tag = "str" THEN "none"
    ELSE IF style.tag = "list"
         THEN IF Len(style.items) > nsig THEN "ValueError:" \o which ELSE "none"
         ELSE "TypeError:" \o which

-----------------------------------------------------------------------------
(* check_plot_items, lines 254-300: the annotations *)

\* lines 272-280: the element of the padded list for one channel
ElemErr(a) == a.tag \notin {"Annotation", "ndarray", "None"}
ElemPlot(a) == IF a.tag \in {"Annotation", "ndarray"} THEN Arr(a.sample) ELSE NoArr

\* line 270: annotation+[None]*(record.nsig-len(annotation))
PadAnn(items, nsig) == items \o Repeat(AnnNone, nsig - Len(items))

\* lines 258-282: [err, annplot] for an annotation that is not None.
\* Line 261 evaluates the global name 'annotations' before anything else.
AlignAnn(ann, nsig) ==
    LET none == Repeat(NoArr, nsig) IN
    IF ~NameBound("annotations")
    THEN [err |-> "NameError:annotations", annplot |-> none]
    ELSE IF ann.tag \in {"Annotation", "ndarray"}
    THEN IF nsig = 0
         THEN [err |-> "IndexError:annplot", annplot |-> none]
         ELSE [err |-> "none", annplot |-> [none EXCEPT ![1] = Arr(ann.sample)]]
    ELSE IF ann.tag = "list"
    THEN IF Len(ann.items) > nsig
         THEN [err |-> "ValueError:annotation", annplot |-> none]
         ELSE LET padded == PadAnn(ann.items, nsig) IN
              IF \E i \in 1..nsig : ElemErr(padded[i])
              THEN [err |-> "TypeError:annotation", annplot |-> none]
              ELSE [err |-> "none", annplot |-> [i \in 1..nsig |-> ElemPlot(padded[i])]]
    ELSE [err |-> "TypeError:annotation", annplot |-> none]

\* lines 284-297
ScaleAll(annplot, fsv, unit) ==
    [i \in 1..Len(annplot) |->
        IF annplot[i].tag = "None" THEN NoArr
        ELSE Arr(ScaleAnn(annplot[i].v, fsv, unit))]

-----------------------------------------------------------------------------
(* check_plot_items, lines 186-303.  The result carries the outcome (err), *)
(* the returned (t, tann, annplot) and record.units / record.signame as    *)
(* the call leaves them: the fills of lines 216, 222, 226 are kept when a  *)
(* later check raises.                                                     *)
Failure(e, units, signame) ==
    [err |-> e, t |-> <<>>, tannNone |-> TRUE, tann |-> <<>>, annplot |-> <<>>,
     units |-> units, signame |-> signame]

check_plot_items(rec, ttl, ann, unit, sstyle, astyle) ==
    LET u0 == rec.units
        n0 == rec.signame
        nsig == rec.nsig
    IN
    IF rec.kind = "notRecord" THEN Failure("TypeError:record", u0, n0)
    ELSE IF rec.kind = "not2d" THEN Failure("TypeError:p_signal", u0, n0)
    ELSE IF unit \notin allowedtimes THEN Failure("ValueError:time_units", u0, n0)
    ELSE IF unit # "samples" /\ ~rec.fs.num THEN Failure("TypeError:fs", u0, n0)
    ELSE
    LET t  == TimeAxis(rec.siglen, rec.fs.v, unit)
        cu == CheckUnits(u0, nsig)
    IN
    IF cu.err # "none" THEN Failure(cu.err, u0, n0)
    ELSE
    LET cn == CheckSigname(n0, nsig) IN
    IF cn.err # "none" THEN Failure(cn.err, cu.units, n0)
    ELSE
    LET u1 == cu.units
        n1 == cn.signame
    IN
    IF ttl \notin {"None", "str"} THEN Failure("TypeError:title", u1, n1)
    ELSE IF CheckStyle(sstyle, nsig, "sig_style") # "none"
         THEN Failure(CheckStyle(sstyle, nsig, "sig_style"), u1, n1)
    ELSE IF CheckStyle(astyle, nsig, "ann_style") # "none"
         THEN Failure(CheckStyle(astyle, nsig, "ann_style"), u1, n1)
    ELSE IF ann.tag = "None"
         THEN [err |-> "none", t |-> t, tannNone |-> TRUE, tann |-> <<>>,
               annplot |-> Repeat(NoArr, nsig), units |-> u1, signame |-> n1]
    ELSE
    LET al == AlignAnn(ann, nsig) IN
    IF al.err # "none" THEN Failure(al.err, u1, n1)
    ELSE [err |-> "none", t |-> t, tannNone |-> FALSE,
          tann |-> ScaleAll(al.annplot, rec.fs.v, unit),
          annplot |-> al.annplot, units |-> u1, signame |-> n1]

-----------------------------------------------------------------------------
(* plotrec, lines 59-73: expansion of the styles and of the grid channels  *)

\* an expansion that leaves a short list short
ExpandStyleNoPad(style, fallback, nsig) ==
    IF style.tag = "str" THEN Repeat(style.s, nsig) ELSE style.items

\* lines 60-64 / 65-69: a new list is bound to the local name; the caller's
\* list is left alone
ExpandStyle(style, fallback, nsig) ==
    IF style.tag = "str" THEN Repeat(style.s, nsig)
    ELSE IF Len(style.items) < nsig
         THEN style.items \o Repeat(fallback, nsig - Len(style.items))
         ELSE style.items

\* lines 72-73: 'all' is range(0, record.nsig); channels are 0-based
ExpandGrids(grids, nsig) == IF grids.all THEN 0..(nsig - 1) ELSE grids.chans

-----------------------------------------------------------------------------
(* calc_ecg_grids, lines 142-182.  Times are counted in 1/90000 of the     *)
(* unit of the time base and amplitudes in 1/40000 of the unit of the      *)
(* channel, which makes every step and the 0.0001 of lines 176-180 whole.  *)

EpsT == 9
EpsA == 4

\* lines 149-160: 0.2 and 0.04 seconds in the time base
GridStepX(unit, fsv) ==
    CASE unit = "samples" -> [major |-> 18000 * fsv, minor |-> 3600 * fsv]
      [] unit = "seconds" -> [major |-> 18000, minor |-> 3600]
      [] unit = "minutes" -> [major |-> 300, minor |-> 60]
      [] OTHER            -> [major |-> 5, minor |-> 1]

\* units.lower() on the labels of the model
Lower(s) == CASE s \in {"mV", "MV", "mv"} -> "mv"
              [] s \in {"uV", "UV", "uv"} -> "uv"
              [] s \in {"V", "v"}         -> "v"
              [] s = "NU"                 -> "nu"
              [] s = "XYZ"                -> "xyz"
              [] OTHER                    -> s

\* lines 163-173; major = 0 stands for the ValueError of line 173
GridStepY(units) ==
    CASE Lower(units) = "uv" -> [major |-> 20000000, minor |-> 5000000]
      [] Lower(units) = "mv" -> [major |-> 20000, minor |-> 5000]
      [] Lower(units) = "v"  -> [major |-> 20, minor |-> 5]
      [] OTHER               -> [major |-> 0, minor |-> 0]

FloorDiv(a, b) == IF b > 0 THEN a \div b ELSE (-a) \div (-b)
CeilDiv(a, b)  == IF b > 0 THEN -((-a) \div b) ELSE -(a \div (-b))

\* io._signal: base * floor(x / base) and base * ceil(x / base)
downround(x, base) == base * FloorDiv(x, base)
upround(x, base)   == base * CeilDiv(x, base)

\* np.arange(start, stop, step): start + k*step for k < ceil((stop-start)/step)
Arange(start, stop, step) ==
    LET n == CeilDiv(stop - start, step) IN
    [k \in 1..(IF n > 0 THEN n ELSE 0) |-> start + (k - 1) * step]

NoTicks(e) == [err |-> e, major_x |-> <<>>, minor_x |-> <<>>,
               major_y |-> <<>>, minor_y |-> <<>>]

calc_ecg_grids(minsig, maxsig, units, fs, maxt, unit) ==
    IF unit = "samples" /\ ~fs.num THEN NoTicks("TypeError:0.2*fs")
    ELSE
    LET sx == GridStepX(unit, fs.v)
        sy == GridStepY(units)
    IN
    IF sy.major = 0 THEN NoTicks("ValueError:grid_units")
    \* line 176 evaluates the global name '_upround'
    ELSE IF ~NameBound("_upround") THEN NoTicks("NameError:_upround")
    ELSE IF sx.major = 0 THEN NoTicks("ZeroDivisionError:upround")
    ELSE
    [err |-> "none",
     major_x |-> Arange(0, upround(maxt, sx.major) + EpsT, sx.major),
     minor_x |-> Arange(0, upround(maxt, sx.major) + EpsT, sx.minor),
     major_y |-> Arange(downround(minsig, sy.major), upround(maxsig, sy.major) + EpsA, sy.major),
     minor_y |-> Arange(downround(minsig, sy.major), upround(maxsig, sy.major) + EpsA, sy.minor)]

-----------------------------------------------------------------------------
(* plotrec, lines 78-133: the body of the loop for one channel.  The calls *)
(* to the rendering surface are collected in order; a stage that raises    *)
(* keeps the calls made before it.  Channels are 0-based in the calls and  *)
(* 1-based as positions of the TLA+ sequences.                            *)

Zero == [n |-> 0, d |-> 1]
Op(op, ch, txt) == [op |-> op, ch |-> ch, txt |-> txt, x |-> Zero]
OpAt(op, ch, txt, x) == [op |-> op, ch |-> ch, txt |-> txt, x |-> x]

\* time_units[:-1]
Singular(unit) == CASE unit = "seconds" -> "second"
                    [] unit = "minutes" -> "minute"
                    [] unit = "hours"   -> "hour"
                    [] OTHER            -> unit

\* lines 80-84
TraceOps(ch, style, ttl) ==
    <<Op("add_subplot", ch, ""), Op("plot", ch, style)>>
      \o (IF ttl # "None" /\ ch = 0 THEN <<Op("title", ch, ttl)>> ELSE <<>>)

\* lines 91-92: enumerate(annotation.symbol) on the annotation argument of
\* plotrec, each symbol placed at tann[ch][i]
SymbolOps(ch, ann, tannch) ==
    IF ann.tag # "Annotation" THEN [err |-> "AttributeError:symbol", ops |-> <<>>]
    ELSE LET k == IF Len(ann.symbol) <= Len(tannch) THEN Len(ann.symbol) ELSE Len(tannch)
         IN [err |-> IF Len(ann.symbol) > Len(tannch) THEN "IndexError:tann" ELSE "none",
             ops |-> [i \in 1..k |-> OpAt("annotate", ch, ann.symbol[i], tannch[i])]]

\* lines 87-92
OverlayOps(ch, ann, annplotch, tannch, style, sym, siglen) ==
    IF annplotch.tag = "None" THEN [err |-> "none", ops |-> <<>>]
    ELSE IF \E j \in 1..Len(annplotch.v) : annplotch.v[j] >= siglen
    THEN [err |-> "IndexError:p_signal", ops |-> <<>>]
    ELSE LET over == <<Op("overlay", ch, style)>> IN
         IF ~sym THEN [err |-> "none", ops |-> over]
         ELSE LET so == SymbolOps(ch, ann, tannch.v) IN
              [err |-> so.err, ops |-> over \o so.ops]

\* lines 95-108
LabelOps(ch, unit, name, units) ==
    <<Op("xlabel", ch, IF unit = "samples" THEN "index/sample"
                       ELSE "time/" \o Singular(unit)),
      Op("ylabel", ch, (IF name # NoneS THEN name ELSE "channel") \o "/"
                       \o (IF units # NoneS THEN units ELSE "NU"))>>

\* lines 111-133
GridOps(ch, grids, ticks) ==
    IF ch \notin grids THEN [err |-> "none", ops |-> <<>>]
    ELSE IF ticks.err # "none" THEN [err |-> ticks.err, ops |-> <<>>]
    ELSE [err |-> "none",
          ops |-> [i \in 1..Len(ticks.minor_x) |-> OpAt("minor_x", ch, "#ededed", [n |-> ticks.minor_x[i], d |-> 1])]
               \o [i \in 1..Len(ticks.major_x) |-> OpAt("major_x", ch, "#bababa", [n |-> ticks.major_x[i], d |-> 1])]
               \o [i \in 1..Len(ticks.minor_y) |-> OpAt("minor_y", ch, "#ededed", [n |-> ticks.minor_y[i], d |-> 1])]
               \o [i \in 1..Len(ticks.major_y) |-> OpAt("major_y", ch, "#bababa", [n |-> ticks.major_y[i], d |-> 1])]
               \o <<Op("set_lims", ch, "")>>]

\* lines 78-133 for channel ch, with the limits the surface reports
ChannelBody(ch, rec, ttl, ann, unit, sym, res, lc, minsig, maxsig, maxt) ==
    LET tr == TraceOps(ch, lc.sig_style[ch + 1], ttl)
        ov == OverlayOps(ch, ann, res.annplot[ch + 1],
                         IF res.tannNone THEN NoArr ELSE res.tann[ch + 1],
                         lc.ann_style[ch + 1], sym, rec.siglen)
    IN
    IF ov.err # "none"
    THEN [err |-> ov.err, ops |-> tr \o ov.ops, grid |-> FALSE, ticks |-> NoTicks("none")]
    ELSE
    LET lb == LabelOps(ch, unit, rec.signame.items[ch + 1], rec.units.items[ch + 1])
        tk == calc_ecg_grids(minsig, maxsig, rec.units.items[ch + 1], rec.fs, maxt, unit)
        gr == GridOps(ch, lc.grids, tk)
    IN [err |-> gr.err, ops |-> tr \o ov.ops \o lb \o gr.ops,
        grid |-> ch \in lc.grids, ticks |-> tk]

-----------------------------------------------------------------------------
(* Inputs *)
FsVals == {FsNone, FsNum(-1), FsNum(0), FsNum(1), FsNum(2)}

UnitLabels == {NoneS, "mV", "XYZ"}
GridLabels == {"mV", "uV", "V", "XYZ"}
NameLabels == {NoneS, "ECG"}
StyleTokens == {"b", "g"}

ListsOf(S, n) == {ListV(l) : l \in SeqsUpTo(S, n)}
StylesOf(n) == {StrStyle(tk) : tk \in StyleTokens} \cup {OtherStyle}
                 \cup {ListStyle(l) : l \in SeqsUpTo(StyleTokens, n)}

\* annotation series: indices may repeat, come unordered or lie at siglen
Annotations ==
    {AnnObj(<<>>, <<>>), AnnObj(<<1>>, <<"V">>), AnnObj(<<1, 0>>, <<"N", "V">>),
     AnnObj(<<0, 0>>, <<"V", "N">>), AnnObj(<<MaxSigLen>>, <<"N">>)}
Arrays == {AnnArr(<<0, 1>>), AnnArr(<<1, 1>>)}
Elements == {AnnNone, AnnOther, AnnObj(<<1, 0>>, <<"N", "V">>), AnnArr(<<0, 1>>)}
AnnotationArgs(n) ==
    {ArgNone, ArgOne(AnnOther)} \cup {ArgOne(a) : a \in Annotations \cup Arrays}
      \cup {ArgList(l) : l \in SeqsUpTo(Elements, n)}

GridArgs == {[all |-> TRUE, chans |-> {}]}
              \cup {[all |-> FALSE, chans |-> c] : c \in SUBSET (0..(MaxChan - 1))}

\* the limits the rendering surface reports for a channel (get_xlim, get_ylim)
XLims == {0, 5, 12, 18000}
YLims == {<<-48000, 52000>>, <<0, 0>>, <<3, 7>>}

DefaultRecord(n) == [kind |-> "ok", siglen |-> MaxSigLen, nsig |-> n, fs |-> FsNum(2),
                     units |-> NoneV, signame |-> NoneV]
DefaultArgs == [title |-> "None", annotation |-> ArgNone, time_units |-> "samples",
                sig_style |-> StrStyle(""), ann_style |-> StrStyle("r*"),
                plot_ann_sym |-> FALSE, ecg_grids |-> [all |-> FALSE, chans |-> {}]]

-----------------------------------------------------------------------------
(* State: the record and the arguments of the call, the position in        *)
(* plotrec (pc), the exception raised (err), the values check_plot_items   *)
(* returned (out), the locals of plotrec (loc), the calls made to the      *)
(* rendering surface (rendered), the number of calls of check_plot_items   *)
(* (calls) and, for reference, the record before the first call and the    *)
(* result of the first call (hist).                                        *)

NoResult == Failure("nocall", NoneV, NoneV)
Returned(r) == [err |-> r.err, t |-> r.t, tannNone |-> r.tannNone, tann |-> r.tann,
                annplot |-> r.annplot]

\* the locals of plotrec: the expanded styles and grid channels, the loop
\* index, and for the last channel drawn with a grid (gch) the limits read at
\* lines 113-114 and the ticks of line 116
NoLocals == [sig_style |-> <<>>, ann_style |-> <<>>, grids |-> {}, ch |-> 0,
             gch |-> -1, lims |-> <<0, 0, 0>>, ticks |-> NoTicks("none")]

InitWith(rec, a) ==
    /\ record = rec
    /\ title = a.title
    /\ annotation = a.annotation
    /\ time_units = a.time_units
    /\ sig_style = a.sig_style
    /\ ann_style = a.ann_style
    /\ plot_ann_sym = a.plot_ann_sym
    /\ ecg_grids = a.ecg_grids
    /\ pc = "call"
    /\ err = "none"
    /\ out = Returned(NoResult)
    /\ loc = NoLocals
    /\ rendered = <<>>
    /\ calls = 0
    /\ hist = [record0 |-> rec, args0 |-> a, first |-> NoResult]

\* The calls plotrec and check_plot_items are made with: each family varies
\* the inputs one group of checks reads and keeps the defaults elsewhere.
MetaInit ==
    \E n \in 0..MaxChan,
       u \in {NoneV, OtherV} \cup ListsOf(UnitLabels, MaxChan + 1),
       s \in {NoneV, OtherV} \cup ListsOf(NameLabels, MaxChan + 1) :
        InitWith([DefaultRecord(n) EXCEPT !.units = u, !.signame = s], DefaultArgs)

TimeInit ==
    \E n \in 0..MaxChan, k \in {"ok", "notRecord", "not2d"}, l \in 0..MaxSigLen,
       f \in FsVals, u \in allowedtimes \cup {"days"} :
        InitWith([DefaultRecord(n) EXCEPT !.kind = k, !.siglen = l, !.fs = f],
                 [DefaultArgs EXCEPT !.time_units = u])

StyleInit ==
    \E n \in 0..MaxChan, ss \in StylesOf(MaxChan + 1), as \in StylesOf(MaxChan + 1),
       tt \in {"None", "str", "other"} :
        InitWith(DefaultRecord(n),
                 [DefaultArgs EXCEPT !.sig_style = ss, !.ann_style = as, !.title = tt])

AnnInit ==
    \E n \in 0..MaxChan, f \in {FsNum(2), FsNone}, a \in AnnotationArgs(MaxChan + 1),
       u \in {"samples", "seconds"}, y \in BOOLEAN :
        InitWith([DefaultRecord(n) EXCEPT !.fs = f],
                 [DefaultArgs EXCEPT !.annotation = a, !.time_units = u,
                                     !.plot_ann_sym = y])

GridInit ==
    \E l \in SeqsUpTo(GridLabels, MaxChan), f \in {FsNone, FsNum(0), FsNum(2)},
       g \in GridArgs, u \in allowedtimes :
        InitWith([DefaultRecord(Len(l)) EXCEPT !.units = ListV(l), !.fs = f],
                 [DefaultArgs EXCEPT !.ecg_grids = g, !.time_units = u])

Init == MetaInit \/ TimeInit \/ StyleInit \/ AnnInit \/ GridInit

\* line 55, or a call of check_plot_items by the caller on the same arguments:
\* lines 186-303
CheckPlotItems ==
    /\ pc \in {"call", "checked", "rejected"}
    /\ calls < MaxCalls
    /\ LET r == check_plot_items(record, title, annotation, time_units,
                                 sig_style, ann_style)
       IN /\ record' = [record EXCEPT !.units = r.units, !.signame = r.signame]
          /\ out' = Returned(r)
          /\ err' = r.err
          /\ pc' = IF r.err = "none" THEN "checked" ELSE "rejected"
          /\ hist' = IF calls = 0 THEN [hist EXCEPT !.first = r] ELSE hist
    /\ calls' = calls + 1
    /\ UNCHANGED <<args, loc, rendered>>

\* lines 57-73
ExpandStyles ==
    /\ pc = "checked"
    /\ loc' = [NoLocals EXCEPT !.sig_style = ExpandStyle(sig_style, "", record.nsig),
                              !.ann_style = ExpandStyle(ann_style, "r*", record.nsig),
                              !.grids = ExpandGrids(ecg_grids, record.nsig)]
    /\ pc' = "expanded"
    /\ UNCHANGED <<record, args, err, out, rendered, calls, hist>>

\* line 76
CreateFigure ==
    /\ pc = "expanded"
    /\ rendered' = <<Op("figure", -1, "")>>
    /\ pc' = "loop"
    /\ UNCHANGED <<record, args, err, out, loc, calls, hist>>

\* lines 78-133, one iteration
PlotChannel ==
    /\ pc = "loop"
    /\ loc.ch < record.nsig
    /\ \E maxt \in XLims, ys \in YLims :
         LET b == ChannelBody(loc.ch, record, title, annotation, time_units,
                              plot_ann_sym, out, loc, ys[1], ys[2], maxt)
         IN /\ rendered' = rendered \o b.ops
            /\ err' = b.err
            /\ pc' = IF b.err = "none" THEN "loop" ELSE "failed"
            /\ loc' = [loc EXCEPT
                         !.ch = IF b.err = "none" THEN loc.ch + 1 ELSE loc.ch,
                         !.gch = IF b.grid THEN loc.ch ELSE loc.gch,
                         !.lims = IF b.grid THEN <<ys[1], ys[2], maxt>> ELSE loc.lims,
                         !.ticks = IF b.grid THEN b.ticks ELSE loc.ticks]
    /\ UNCHANGED <<record, args, out, calls, hist>>

\* lines 135-139
Show ==
    /\ pc = "loop"
    /\ loc.ch = record.nsig
    /\ rendered' = Append(rendered, Op("show", -1, ""))
    /\ pc' = "done"
    /\ UNCHANGED <<record, args, err, out, loc, calls, hist>>

Next == CheckPlotItems \/ ExpandStyles \/ CreateFigure \/ PlotChannel \/ Show

Spec == Init /\ [][Next]_vars

-----------------------------------------------------------------------------
(* Properties *)

N == record.nsig

\* the failures check_plot_items raises before it looks at the annotations
RecordErrors == {"TypeError:record", "TypeError:p_signal"}
TimeErrors == RecordErrors \cup {"ValueError:time_units", "TypeError:fs"}
MetaErrors == TimeErrors \cup {"ValueError:units", "ValueError:signame"}
BeforeSigStyle == MetaErrors \cup {"TypeError:title"}
BeforeAnnStyle == BeforeSigStyle \cup {"ValueError:sig_style", "TypeError:sig_style"}
BeforeAnnotation == BeforeAnnStyle \cup {"ValueError:ann_style", "TypeError:ann_style"}

\* the failures caused by invalid caller input
InputErrors == BeforeAnnotation \cup {"ValueError:annotation", "TypeError:annotation",
                                      "ValueError:grid_units"}

Checked == calls > 0

\* C1: in a plotrec call every failure caused by invalid caller input,
\* the unrecognized amplitude unit of a grid channel included, is raised
\* before the first rendering operation.
C1_NoErrorAfterRendering == err \in InputErrors => rendered = <<>>

\* the per-channel array the annotation input stands for
IsSeries(a) == a.tag \in {"Annotation", "ndarray"}
ClaimedAnnplot(ann) ==
    IF ann.tag = "list"
    THEN [i \in 1..N |-> IF i <= Len(ann.items) /\ IsSeries(ann.items[i])
                         THEN Arr(ann.items[i].sample) ELSE NoArr]
    ELSE [i \in 1..N |-> IF i = 1 /\ IsSeries(ann) THEN Arr(ann.sample) ELSE NoArr]

ReachedAnnotation == Checked /\ out.err \notin BeforeAnnotation

\* C2: check_plot_items fails or returns annplot of length N: the marker
\* everywhere for an absent input, a bare series or array on channel 0 only,
\* element i of a list of length k <= N on channel i and the marker from k
\* on; a list longer than N fails with the length-mismatch error, and an
\* input or list element of another type fails with the type error.
C2_AnnotationAlignment ==
    Checked =>
      /\ out.err = "none" => out.annplot = ClaimedAnnplot(annotation)
      /\ (ReachedAnnotation /\ annotation.tag = "list" /\ Len(annotation.items) > N)
            => out.err = "ValueError:annotation"
      /\ (ReachedAnnotation /\ annotation.tag = "other")
            => out.err = "TypeError:annotation"
      /\ (ReachedAnnotation /\ annotation.tag = "list" /\ Len(annotation.items) <= N
            /\ \E i \in 1..Len(annotation.items) : annotation.items[i].tag = "other")
            => out.err = "TypeError:annotation"

\* an accepted annotation input whose indices lie in 0..siglen-1
InRange(sample) == \A j \in 1..Len(sample) : sample[j] < record.siglen
AlignedInput ==
    \/ /\ IsSeries(annotation) /\ N >= 1 /\ InRange(annotation.sample)
    \/ /\ annotation.tag = "list" /\ Len(annotation.items) <= N
       /\ \A i \in 1..Len(annotation.items) :
            /\ annotation.items[i].tag \in {"Annotation", "ndarray", "None"}
            /\ InRange(annotation.items[i].sample)

\* the annotation the caller aligned to 0-based channel ch
SeriesAt(ch) ==
    IF annotation.tag = "list"
    THEN IF ch + 1 <= Len(annotation.items) THEN annotation.items[ch + 1] ELSE AnnNone
    ELSE IF ch = 0 THEN [tag |-> annotation.tag, sample |-> annotation.sample,
                         symbol |-> annotation.symbol]
         ELSE AnnNone

Labels(ch) == SelectSeq(rendered, LAMBDA e : e.op = "annotate" /\ e.ch = ch)
CallOver == pc \in {"done", "failed", "rejected"}

\* C3: with plot_ann_sym, for a single series or a per-channel list, the
\* j-th overlay point of a channel carries the j-th symbol of that channel's
\* own series, and the channel gets as many labels as the series has indices.
C3_SymbolsOfOwnSeries ==
    (CallOver /\ plot_ann_sym /\ ReachedAnnotation /\ AlignedInput) =>
        \A ch \in 0..(N - 1) :
            SeriesAt(ch).tag = "Annotation" =>
                Labels(ch) = [j \in 1..Len(SeriesAt(ch).sample) |->
                                OpAt("annotate", ch, SeriesAt(ch).symbol[j],
                                     TimeVal(SeriesAt(ch).sample[j], record.fs.v, time_units))]

Absent(l, i) == l.tag = "None" \/ (l.tag = "list" /\ i <= Len(l.items) /\ l.items[i] = NoneS)
WrongLength(l) == l.tag = "list" /\ Len(l.items) # N

\* C4: after a successful check_plot_items record.units and record.signame
\* are lists of length N without absent entry, every absent unit being "NU"
\* and every absent name "ch<i+1>"; a given list of another length fails
\* with the length-mismatch error.
C4_DefaultsFilled ==
    Checked =>
      /\ out.err = "none" =>
           /\ record.units.tag = "list" /\ Len(record.units.items) = N
           /\ record.signame.tag = "list" /\ Len(record.signame.items) = N
           /\ \A i \in 1..N :
                /\ record.units.items[i] # NoneS
                /\ record.signame.items[i] # NoneS
                /\ Absent(hist.record0.units, i) => record.units.items[i] = "NU"
                /\ Absent(hist.record0.signame, i)
                      => record.signame.items[i] = "ch" \o Digit[i]
      /\ (out.err \notin TimeErrors /\ WrongLength(hist.record0.units))
            => out.err = "ValueError:units"
      /\ (out.err \notin TimeErrors \cup {"ValueError:units"}
            /\ WrongLength(hist.record0.signame))
            => out.err = "ValueError:signame"

\* C5: for seconds, minutes and hours check_plot_items returns a time axis
\* only when fs is a number greater than zero; otherwise it fails with the
\* missing-frequency error and returns nothing.
C5_PositiveFs ==
    (Checked /\ time_units \in {"seconds", "minutes", "hours"}
       /\ out.err \notin RecordErrors) =>
        \/ record.fs.num /\ record.fs.v > 0
        \/ out.err = "TypeError:fs" /\ out.t = <<>> /\ out.tann = <<>>

\* the multiples of step from lo to hi, both multiples of step
Multiples(step, lo, hi) == [k \in 1..((hi - lo) \div step + 1) |-> lo + (k - 1) * step]
\* the smallest multiple of step that is >= x, the largest that is <= x
Near(x, step) == {k * step : k \in ((x \div step) - 1)..((x \div step) + 1)}
LeastAbove(x, step) == CHOOSE u \in Near(x, step) : u >= x /\ u - step < x
MostBelow(x, step) == CHOOSE u \in Near(x, step) : u <= x /\ u + step > x

GridChannel == loc.gch >= 0
GridUnits == record.units.items[loc.gch + 1]
GridTimeValid == time_units = "samples" => (record.fs.num /\ record.fs.v > 0)
GridCase == GridChannel /\ GridTimeValid /\ GridStepY(GridUnits).major # 0

\* C6: for every time base, fs > 0 and maxt >= 0 calc_ecg_grids returns
\* time ticks from 0 to U, the smallest multiple of the major step >= maxt:
\* the major ticks are the multiples of the major step in [0, U], the minor
\* ticks those of the minor step, and no tick lies beyond U.
C6_TimeTicks ==
    GridCase =>
        LET sx == GridStepX(time_units, record.fs.v)
            U  == LeastAbove(loc.lims[3], sx.major)
        IN /\ loc.ticks.err = "none"
           /\ loc.ticks.major_x = Multiples(sx.major, 0, U)
           /\ loc.ticks.minor_x = Multiples(sx.minor, 0, U)

\* C7: for a unit uv, mv or v in any case and minSig <= maxSig
\* calc_ecg_grids returns amplitude ticks that are the multiples of the
\* major and of the minor step from L, the largest multiple of the major
\* step <= minSig, to H, the smallest >= maxSig.
C7_AmplitudeTicks ==
    GridCase =>
        LET sy == GridStepY(GridUnits)
            L  == MostBelow(loc.lims[1], sy.major)
            H  == LeastAbove(loc.lims[2], sy.major)
        IN /\ loc.ticks.err = "none"
           /\ loc.ticks.major_y = Multiples(sy.major, L, H)
           /\ loc.ticks.minor_y = Multiples(sy.minor, L, H)

\* C8: for an aligned annotation series with indices in 0..siglen-1 every
\* returned annotation time equals the time axis at the annotation's sample
\* index, and annplot keeps the indices unscaled, in order and multiplicity.
C8_AnnotationTimes ==
    (ReachedAnnotation /\ AlignedInput) =>
        /\ out.err = "none"
        /\ out.annplot = ClaimedAnnplot(annotation)
        /\ \A ch \in 1..N :
             out.annplot[ch].tag # "None" =>
                /\ ~out.tannNone
                /\ Len(out.tann[ch].v) = Len(out.annplot[ch].v)
                /\ \A j \in 1..Len(out.annplot[ch].v) :
                     out.tann[ch].v[j] = out.t[out.annplot[ch].v[j] + 1]

Expanded == pc \in {"expanded", "loop", "done", "failed"}
ClaimedExpansion(e, style, fallback) ==
    /\ Len(e) = N
    /\ style.tag = "str" => \A i \in 1..N : e[i] = style.s
    /\ style.tag = "list" =>
         \A i \in 1..N : e[i] = IF i <= Len(style.items) THEN style.items[i] ELSE fallback
TooLong(style) == style.tag = "list" /\ Len(style.items) > N

\* C9: a single style token expands to N copies; a list of length k <= N
\* expands to length N, its first k entries the input and the rest the
\* fallback ('' for the signal style, 'r*' for the annotation style); a list
\* longer than N is rejected with the length-mismatch error by
\* check_plot_items, never expanded; the caller's list is not modified.
C9_StyleExpansion ==
    /\ Expanded => /\ ClaimedExpansion(loc.sig_style, hist.args0.sig_style, "")
                   /\ ClaimedExpansion(loc.ann_style, hist.args0.ann_style, "r*")
    /\ (Checked /\ TooLong(sig_style)) =>
          /\ out.err # "none" /\ ~Expanded
          /\ out.err \notin BeforeSigStyle => out.err = "ValueError:sig_style"
    /\ (Checked /\ TooLong(ann_style)) =>
          /\ out.err # "none" /\ ~Expanded
          /\ out.err \notin BeforeAnnStyle => out.err = "ValueError:ann_style"
    /\ sig_style = hist.args0.sig_style
    /\ ann_style = hist.args0.ann_style

\* a list of k < N signal styles and an empty list of annotation styles
\* have been expanded for two or more channels
C9_Witness ==
    /\ pc = "expanded" /\ N >= 2
    /\ sig_style.tag = "list" /\ Len(sig_style.items) = N - 1
    /\ ann_style.tag = "list" /\ Len(ann_style.items) = 0
    /\ loc.sig_style[N] = "" /\ loc.ann_style[1] = "r*"

Kept(l0, l) ==
    /\ l0.tag = "other" => l = l0
    /\ l0.tag = "list" =>
         /\ l.tag = "list" /\ Len(l.items) = Len(l0.items)
         /\ \A i \in 1..Len(l0.items) : l0.items[i] # NoneS => l.items[i] = l0.items[i]

\* C10: a second call of check_plot_items with the same arguments leaves
\* record.units and record.signame as the first call left them and returns
\* the same outcome; in every call the signal matrix, fs, the caller's style
\* lists and annotation list are unchanged and the entries of units and
\* signame that were present keep their values.
C10_FillIdempotent ==
    /\ calls >= 2 => /\ record.units = hist.first.units
                     /\ record.signame = hist.first.signame
                     /\ out = Returned(hist.first)
    /\ record.kind = hist.record0.kind /\ record.siglen = hist.record0.siglen
    /\ record.nsig = hist.record0.nsig /\ record.fs = hist.record0.fs
    /\ sig_style = hist.args0.sig_style /\ ann_style = hist.args0.ann_style
    /\ annotation = hist.args0.annotation
    /\ Kept(hist.record0.units, record.units)
    /\ Kept(hist.record0.signame, record.signame)

\* check_plot_items has been called twice on a record whose units held an
\* absent and a present entry, the first call having filled the absent one
C10_Witness ==
    /\ calls = 2 /\ out.err = "none"
    /\ hist.record0.units.tag = "list" /\ N >= 2
    /\ hist.record0.units.items[1] = NoneS /\ hist.record0.units.items[2] = "mV"
    /\ hist.first.units.items[1] = "NU" /\ record.units.items[2] = "mV"

====
